---------------------------- MODULE Spec2Model ----------------------------
(***************************************************************************)
(* A model of ChemTorch's rate module (src/src/rates.py): reading the      *)
(* colon-delimited rate file, dispatching every reaction to its rate law,  *)
(* and reading and querying the CO self-shielding table.                   *)
(*                                                                         *)
(* Text is kept as text: a file line is the sequence of its                *)
(* colon-delimited fields (what lines[i].split(':') yields), every field a *)
(* string, and int() and float() are modelled as partial parsers over      *)
(* those strings.  Python sequences are 0-based, TLA+ sequences 1-based:   *)
(* the Python element x[j] is the TLA+ element x[j + 1].                   *)
(*                                                                         *)
(* A rate coefficient is the real number c * exp(en / ed), kept exactly as *)
(* the record [c, en, ed] in lowest terms, so that two rate laws agree in  *)
(* the model exactly when they agree as real numbers (rounding of IEEE     *)
(* doubles is not modelled).                                               *)
(***************************************************************************)
EXTENDS Integers, Sequences, FiniteSets, TLC

VARIABLES
    file,        \* the rate file: a sequence of lines, each a sequence of fields
    loaded,      \* what the caller's last read_rate_file call returned
    call,        \* the arguments of the last calculate_rates call
    k,           \* what the last calculate_rates call returned
    firstLoad,   \* history: what the first read_rate_file call returned
    memo,        \* history: the first calculate_rates call and its result
    gridFile,    \* the shielding table file: a sequence of rows of text cells
    legendFile,  \* the legend file: a sequence of rows of text cells
    table,       \* what the last read_COshielding call returned
    query,       \* the arguments of the last retrieve_COshielding call
    shieldrate   \* what the last retrieve_COshielding call returned

vars == <<file, loaded, call, k, firstLoad, memo,
          gridFile, legendFile, table, query, shieldrate>>

rateVars   == <<file, loaded, call, k, firstLoad, memo>>
shieldVars == <<gridFile, legendFile, table, query, shieldrate>>

(***************************************************************************)
(* Bounds of the model.                                                    *)
(***************************************************************************)
MaxLines == 2      \* a rate file has at most MaxLines lines
MaxDim   == 3      \* the shielding grid has at most MaxDim rows and columns

(***************************************************************************)
(* Module constants (src/src/rates.py, lines 41-43).  frac = 1/300 is kept *)
(* as its denominator, w = 0.5 as the fraction wNum / wDen.                *)
(***************************************************************************)
fracDen == 300
wNum    == 1
wDen    == 2
alb     == wDen \div (wDen - wNum)

\* The keys of the module's reaction_type dictionary: the 15 known tags.
reaction_type ==
    {"AD", "CD", "CE", "CP", "CR", "DR", "IN", "MN", "NN", "PH",
     "RA", "REA", "RR", "IP", "AP"}

(***************************************************************************)
(* Python's int() and float() on the text of a field.                      *)
(***************************************************************************)
IntRange == -3 .. 9

IsInt(s) == \E n \in IntRange : ToString(n) = s

\* int(s), for a field s that IsInt.
ParseInt(s) == CHOOSE n \in IntRange : ToString(n) = s

\* The numerals that occur in the model's files, with the value float() gives.
FloatLexicon ==
    { <<"0.00", 0>>, <<"1.00", 1>>, <<"2.00", 2>>, <<"3.00e+00", 3>>,
      <<"1.00e+01", 10>>, <<"41000", 41000>> }
    \cup { <<ToString(n), n>> : n \in 0..60 }

IsFloat(s) == \E p \in FloatLexicon : p[1] = s

\* float(s), for a field s that IsFloat.
ParseFloat(s) == (CHOOSE p \in FloatLexicon : p[1] = s)[2]

(***************************************************************************)
(* Results of calls.  st is "none" before the call was ever made, "ok"     *)
(* when the call returned, "error" when it raised (err names the Python    *)
(* exception).                                                             *)
(***************************************************************************)
NoTable ==
    [st |-> "none", err |-> "", rates |-> <<>>, type |-> <<>>,
     alpha |-> <<>>, beta |-> <<>>, gamma |-> <<>>]

LoadError(e) ==
    [st |-> "error", err |-> e, rates |-> <<>>, type |-> <<>>,
     alpha |-> <<>>, beta |-> <<>>, gamma |-> <<>>]

(***************************************************************************)
(* read_rate_file, first loop (lines 57-62): the dictionary rates, kept as *)
(* the sequence of its <<key, value>> entries in insertion order.          *)
(* Assigning to a key that is present replaces its value in place.         *)
(***************************************************************************)
HasKey(d, key) == \E j \in 1..Len(d) : d[j][1] = key

DictSet(d, key, val) ==
    IF HasKey(d, key)
    THEN [j \in 1..Len(d) |-> IF d[j][1] = key THEN <<key, val>> ELSE d[j]]
    ELSE Append(d, <<key, val>>)

\* The dictionary after lines 1..n: [st, err, d].
RECURSIVE ReadLines(_, _)
ReadLines(lines, n) ==
    IF n = 0 THEN [st |-> "ok", err |-> "", d |-> <<>>]
    ELSE LET before == ReadLines(lines, n - 1)
             line   == lines[n]
         IN  IF before.st # "ok" THEN before
             ELSE IF ~IsInt(line[1])
                  THEN [st |-> "error", err |-> "ValueError", d |-> <<>>]
                  ELSE [st |-> "ok", err |-> "",
                        d  |-> DictSet(before.d, ParseInt(line[1]), Tail(line))]

(***************************************************************************)
(* A numpy array of length n assigned at the Python index j: a negative j  *)
(* counts from the end, anything outside -n .. n-1 raises IndexError.      *)
(***************************************************************************)
InBounds(n, j) == -n <= j /\ j < n

Slot(n, j) == IF j >= 0 THEN j + 1 ELSE j + n + 1

Zeros(n) == [j \in 1..n |-> 0]

\* The Python offsets, within the value line[1:], of the fields read.
\* alpha read one field early, from the count of fits.
OffAlpha_Early == 8 - 1

OffAlpha == 8
OffBeta  == 9
OffGamma == 10

(***************************************************************************)
(* read_rate_file, second loop (lines 64-72) over the first n entries of   *)
(* the dictionary d, in insertion order.                                   *)
(***************************************************************************)
RECURSIVE FillArrays(_, _)
FillArrays(d, n) ==
    IF n = 0
    THEN [st |-> "ok", err |-> "", rates |-> d, type |-> <<>>,
          alpha |-> Zeros(Len(d)), beta |-> Zeros(Len(d)),
          gamma |-> Zeros(Len(d))]
    ELSE LET before == FillArrays(d, n - 1)
             nb     == d[n][1]
             val    == d[n][2]
             size   == Len(d)
         IN  IF before.st # "ok" THEN before
             ELSE IF Len(val) < 1 THEN LoadError("IndexError")
             ELSE IF Len(val) < OffAlpha + 1 THEN LoadError("IndexError")
             ELSE IF ~IsFloat(val[OffAlpha + 1]) THEN LoadError("ValueError")
             ELSE IF ~InBounds(size, nb - 1) THEN LoadError("IndexError")
             ELSE IF Len(val) < OffBeta + 1 THEN LoadError("IndexError")
             ELSE IF ~IsFloat(val[OffBeta + 1]) THEN LoadError("ValueError")
             ELSE IF Len(val) < OffGamma + 1 THEN LoadError("IndexError")
             ELSE IF ~IsFloat(val[OffGamma + 1]) THEN LoadError("ValueError")
             ELSE [before EXCEPT
                     !.type  = Append(@, val[1]),
                     !.alpha = [@ EXCEPT ![Slot(size, nb - 1)] =
                                            ParseFloat(val[OffAlpha + 1])],
                     !.beta  = [@ EXCEPT ![Slot(size, nb - 1)] =
                                            ParseFloat(val[OffBeta + 1])],
                     !.gamma = [@ EXCEPT ![Slot(size, nb - 1)] =
                                            ParseFloat(val[OffGamma + 1])]]

\* read_rate_file on the file with the given lines.
read_rate_file(lines) ==
    LET parsed == ReadLines(lines, Len(lines))
    IN  IF parsed.st # "ok" THEN LoadError(parsed.err)
        ELSE FillArrays(parsed.d, Len(parsed.d))


(***************************************************************************)
(* Rate coefficients as exact reals c * exp(en / ed).                      *)
(***************************************************************************)
RECURSIVE Gcd(_, _)
Gcd(a, b) == IF b = 0 THEN a ELSE Gcd(b, a % b)

Abs(x) == IF x < 0 THEN -x ELSE x

\* c * exp(n / d) for d > 0, in lowest terms; 0 * exp(x) is 0 and exp(0) is 1.
Num(c, n, d) ==
    IF c = 0 \/ n = 0 THEN [c |-> c, en |-> 0, ed |-> 1]
    ELSE LET g == Gcd(Abs(n), d)
         IN  [c |-> c, en |-> n \div g, ed |-> d \div g]

RECURSIVE Pow(_, _)
Pow(b, e) == IF e = 0 THEN 1 ELSE b * Pow(b, e - 1)

\* T*frac, for the temperatures of the model (multiples of 300).
TimesFrac(T) == T \div fracDen

(***************************************************************************)
(* The rate laws (lines 174-243).                                          *)
(***************************************************************************)
Arrhenius_rate(a, b, g, T) == Num(a * Pow(TimesFrac(T), b), -g, T)

CP_rate(a) == Num(a, 0, 1)

CR_rate(a, b, g, T) == Num(a * Pow(TimesFrac(T), b) * g * alb, 0, 1)

photodissociation_rate(a, g, delta, Av) == Num(a * delta, -(g * Av), 1)

(***************************************************************************)
(* calculate_rates (lines 142-168): the dispatch on the type tag.          *)
(***************************************************************************)
\* The dispatch without its AP branch: AP falls through to the Arrhenius law.
Rate_NoAP(tag, a, b, g, T, delta, Av) ==
    IF tag = "CP" THEN CP_rate(a)
    ELSE IF tag = "CR" THEN CR_rate(a, b, g, T)
    ELSE IF tag = "PH" THEN photodissociation_rate(a, g, delta, Av)
    ELSE IF tag = "IP" THEN Num(0, 0, 1)
    ELSE Arrhenius_rate(a, b, g, T)

Rate(tag, a, b, g, T, delta, Av) ==
    IF tag = "CP" THEN CP_rate(a)
    ELSE IF tag = "CR" THEN CR_rate(a, b, g, T)
    ELSE IF tag = "PH" THEN photodissociation_rate(a, g, delta, Av)
    ELSE IF tag = "IP" THEN Num(0, 0, 1)
    ELSE IF tag = "AP" THEN Num(0, 0, 1)
    ELSE Arrhenius_rate(a, b, g, T)

NoRates == [st |-> "none", err |-> "", k |-> <<>>]

calculate_rates(T, delta, Av, lines) ==
    LET db == read_rate_file(lines)
    IN  IF db.st # "ok" THEN [st |-> "error", err |-> db.err, k |-> <<>>]
        ELSE [st |-> "ok", err |-> "",
              k  |-> [i \in 1..Len(db.type) |->
                        Rate(db.type[i], db.alpha[i], db.beta[i], db.gamma[i],
                             T, delta, Av)]]

(***************************************************************************)
(* The rate files of the model.                                            *)
(***************************************************************************)
\* A line of the RATE format, as split(':') yields it: index, type tag, two
\* reactants, four products, the number of fits, alpha, beta, gamma, and the
\* temperature range.
MkLine(idx, tag, ne, a, b, g) ==
    <<idx, tag, "C-", "C", "C2", "e-", "", "", ne, a, b, g, "10", "41000">>

AllTags == reaction_type \cup {"XX"}

\* Lines whose index runs over 0 .. MaxLines+1.
IndexTexts == {ToString(n) : n \in 0 .. MaxLines + 1}

\* The count of fits, alpha, beta and gamma of the lines, by type tag.
Params == { <<"CP", "1", "2.00", "0.00", "1.00">>,
            <<"NN", "1", "2.00", "0.00", "1.00">>,
            <<"NN", "2", "1.00e+01", "1.00", "3.00e+00">> }

GoodLines ==
    { MkLine(i, p[1], p[2], p[3], p[4], p[5]) : i \in IndexTexts, p \in Params }

\* A line cut after beta, a line with a fractional index, a blank alpha.
BadLines ==
    { SubSeq(MkLine("1", "NN", "1", "2.00", "0.00", "1.00"), 1, 11),
      MkLine("1.0", "NN", "1", "2.00", "0.00", "1.00"),
      MkLine("1", "NN", "1", "", "0.00", "1.00") }

Lines == GoodLines \cup BadLines

\* Files of up to MaxLines lines, in any order, with any indices.
IndexFiles == UNION { [1..n -> Lines] : n \in 0..MaxLines }

\* One-reaction files over every tag.
TagFiles ==
    { << MkLine("1", t, "1", a, b, g) >> :
        t \in AllTags, a \in {"1.00", "2.00"}, b \in {"0.00", "1.00"},
        g \in {"0.00", "1.00"} }

Files == IndexFiles \cup TagFiles

Temps     == {300, 600}
Dilutions == {1, 2}
Extincts  == {0, 1}

NoCall == [made |-> FALSE, T |-> 0, delta |-> 0, Av |-> 0]

\* mixed: a call with other arguments was made after the first call.
NoMemo == [call |-> NoCall, k |-> NoRates, mixed |-> FALSE]

NoShieldTable == [st |-> "none", err |-> "", shielding |-> <<>>,
                  CO |-> <<>>, H2 |-> <<>>]

NoQuery == [made |-> FALSE, N_CO |-> 0, N_H2 |-> 0]

NoShieldRate == [st |-> "none", err |-> "", rate |-> 0]

ShieldIdle ==
    /\ gridFile = <<>>
    /\ legendFile = <<>>
    /\ table = NoShieldTable
    /\ query = NoQuery
    /\ shieldrate = NoShieldRate

Init ==
    /\ file \in Files
    /\ loaded = NoTable
    /\ call = NoCall
    /\ k = NoRates
    /\ firstLoad = NoTable
    /\ memo = NoMemo
    /\ ShieldIdle

\* The caller reads the rate file.
ReadRateFile ==
    /\ loaded' = read_rate_file(file)
    /\ UNCHANGED <<file, call, k, firstLoad, memo>>
    /\ UNCHANGED shieldVars

\* The caller evaluates the rates under the conditions (T, delta, Av).
CalculateRates(T, delta, Av) ==
    /\ call' = [made |-> TRUE, T |-> T, delta |-> delta, Av |-> Av]
    /\ k' = calculate_rates(T, delta, Av, file)
    /\ UNCHANGED <<file, loaded, firstLoad, memo>>
    /\ UNCHANGED shieldVars

Next ==
    \/ ReadRateFile
    \/ \E T \in Temps, delta \in Dilutions, Av \in Extincts :
          CalculateRates(T, delta, Av)

Spec == Init /\ [][Next]_vars


(***************************************************************************)
(* What the rate file says, read off the text alone.                       *)
(***************************************************************************)
\* The colon-delimited field of a line at a position counted from 0.
Field(line, pos) == line[pos + 1]

\* Every line has an integer index and twelve fields or more, with numerals
\* where alpha, beta and gamma stand.
WellFormed(f) ==
    \A l \in 1..Len(f) :
        /\ IsInt(Field(f[l], 0))
        /\ Len(f[l]) >= 12
        /\ IsFloat(Field(f[l], 9))
        /\ IsFloat(Field(f[l], 10))
        /\ IsFloat(Field(f[l], 11))

IndexOfLine(f, l) == ParseInt(Field(f[l], 0))

IndexSet(f) == {IndexOfLine(f, l) : l \in 1..Len(f)}

HasDuplicateIndex(f) ==
    \E l1, l2 \in 1..Len(f) : l1 # l2 /\ IndexOfLine(f, l1) = IndexOfLine(f, l2)

\* A valid rate file: its indices are a permutation of 1..N.
ValidFile(f) ==
    /\ WellFormed(f)
    /\ ~HasDuplicateIndex(f)
    /\ IndexSet(f) = 1..Len(f)

\* The line of a valid file that carries index i.
LineWithIndex(f, i) == f[CHOOSE l \in 1..Len(f) : IndexOfLine(f, l) = i]

\* C1: for a loaded database of N reactions, calculate_rates returns a
\* vector of exactly N entries whose entry i is alpha[i] for CP, the
\* cosmic-ray photoreaction law for CR, the photodissociation law for PH,
\* exactly 0 for IP and AP, and the Arrhenius law for the ten two-body tags.
C1_Dispatch ==
    LET db == read_rate_file(file)
    IN  (call.made /\ db.st = "ok") =>
          /\ k.st = "ok"
          /\ Len(k.k) = Len(db.type)
          /\ \A i \in 1..Len(db.type) :
               LET t == db.type[i]
                   a == db.alpha[i]
                   b == db.beta[i]
                   g == db.gamma[i]
               IN  /\ t = "CP" => k.k[i] = Num(a, 0, 1)
                   /\ t = "CR" => k.k[i] = CR_rate(a, b, g, call.T)
                   /\ t = "PH" =>
                        k.k[i] = photodissociation_rate(a, g, call.delta, call.Av)
                   /\ t \in {"IP", "AP"} => k.k[i] = Num(0, 0, 1)
                   /\ t \in {"AD", "CD", "CE", "DR", "IN", "MN", "NN", "RA",
                             "REA", "RR"} =>
                        k.k[i] = Arrhenius_rate(a, b, g, call.T)

\* An accompanying-photon reaction with a non-zero alpha has been evaluated
\* at 600 K, where the Arrhenius law would not give 0.
C1_Witness ==
    /\ call.made /\ call.T = 600
    /\ k.st = "ok" /\ Len(k.k) = 1
    /\ Field(file[1], 1) = "AP"
    /\ read_rate_file(file).alpha[1] = 2
    /\ read_rate_file(file).gamma[1] = 1
    /\ k.k[1] = Num(0, 0, 1)

\* C2 (as claimed): for a valid rate file, in any line order, the arrays
\* have length N and position i-1 of type, alpha, beta and gamma is taken
\* from the line whose index is i.
C2_ByIndex ==
    (loaded.st # "none" /\ ValidFile(file)) =>
        /\ loaded.st = "ok"
        /\ Len(loaded.type) = Len(file)
        /\ Len(loaded.alpha) = Len(file)
        /\ Len(loaded.beta) = Len(file)
        /\ Len(loaded.gamma) = Len(file)
        /\ \A i \in 1..Len(file) :
             LET line == LineWithIndex(file, i)
             IN  /\ loaded.type[i] = Field(line, 1)
                 /\ loaded.alpha[i] = ParseFloat(Field(line, 9))
                 /\ loaded.beta[i] = ParseFloat(Field(line, 10))
                 /\ loaded.gamma[i] = ParseFloat(Field(line, 11))

\* C3 (as claimed): when some reaction's tag is not one of the 15 known
\* tags, calculate_rates ends in an error and returns no rate vector.
C3_UnknownTagFails ==
    LET db == read_rate_file(file)
    IN  (/\ call.made
         /\ db.st = "ok"
         /\ \E i \in 1..Len(db.type) : db.type[i] \notin reaction_type)
        => k.st = "error"

\* C4 (as claimed): when two lines carry the same reaction index, the load
\* fails and returns no table.
C4_DuplicateFails ==
    (/\ loaded.st # "none"
     /\ \A l \in 1..Len(file) : IsInt(Field(file[l], 0))
     /\ HasDuplicateIndex(file))
    => loaded.st = "error"

\* C5 (as claimed): whenever the load returns a table of N reactions, the
\* set of reaction indices in the file is exactly 1..N.
C5_Contiguous ==
    loaded.st = "ok" => IndexSet(file) = 1..Len(loaded.alpha)

\* A line of a loaded file that alone decides its reaction's slot: its index i
\* is in 1..N, no later line carries i, and no line carries the index i-N,
\* which numpy's negative indexing folds onto the same slot.
Decides(f, l, n) ==
    LET i == IndexOfLine(f, l)
    IN  /\ i \in 1..n
        /\ \A l2 \in 1..Len(f) :
              /\ (l2 > l => IndexOfLine(f, l2) # i)
              /\ IndexOfLine(f, l2) # i - n

\* C6 (as claimed): alpha, beta and gamma of a line's reaction are fields
\* 8, 9 and 10 of the line, counted from 0 with the index as field 0.
C6_Fields8to10 ==
    loaded.st = "ok" =>
        \A l \in 1..Len(file) :
            Decides(file, l, Len(loaded.alpha)) =>
                LET i == IndexOfLine(file, l)
                IN  /\ loaded.alpha[i] = ParseFloat(Field(file[l], 8))
                    /\ loaded.beta[i] = ParseFloat(Field(file[l], 9))
                    /\ loaded.gamma[i] = ParseFloat(Field(file[l], 10))

\* C6 (amended): alpha, beta and gamma of a line's reaction are fields
\* 9, 10 and 11 of the line, counted from 0 with the index as field 0 and
\* the type tag as field 1, for every line that decides its reaction's slot.
C6_Fields9to11 ==
    loaded.st = "ok" =>
        \A l \in 1..Len(file) :
            Decides(file, l, Len(loaded.alpha)) =>
                LET i == IndexOfLine(file, l)
                IN  /\ loaded.alpha[i] = ParseFloat(Field(file[l], 9))
                    /\ loaded.beta[i] = ParseFloat(Field(file[l], 10))
                    /\ loaded.gamma[i] = ParseFloat(Field(file[l], 11))

\* A two-line file in reverse index order has been loaded, and the line
\* with index 2 carries alpha = 10, beta = 1, gamma = 3 after a fit count 2.
C6_Witness ==
    /\ loaded.st = "ok"
    /\ Len(file) = 2
    /\ Field(file[1], 0) = "2" /\ Field(file[2], 0) = "1"
    /\ Field(file[1], 8) = "2"
    /\ Field(file[1], 9) = "1.00e+01"
    /\ loaded.alpha[2] = 10 /\ loaded.beta[2] = 1 /\ loaded.gamma[2] = 3


(***************************************************************************)
(* A session of calls over an unchanged rate file, with the history of the *)
(* first load and of the first evaluation kept beside the program's state. *)
(***************************************************************************)
SessionLines ==
    { MkLine(ToString(i), t, "1", "2.00", "1.00", "1.00") :
        i \in 1..MaxLines, t \in {"CR", "PH"} }

SessionFiles == UNION { [1..n -> SessionLines] : n \in 0..MaxLines }

InitSession ==
    /\ file \in SessionFiles
    /\ loaded = NoTable
    /\ call = NoCall
    /\ k = NoRates
    /\ firstLoad = NoTable
    /\ memo = NoMemo
    /\ ShieldIdle

SessionLoad ==
    /\ loaded' = read_rate_file(file)
    /\ firstLoad' = IF firstLoad.st = "none" THEN loaded' ELSE firstLoad
    /\ UNCHANGED <<file, call, k, memo>>
    /\ UNCHANGED shieldVars

\* calculate_rates that keeps its last vector and returns it again whenever
\* the temperature is the one of the last call.
SessionEvaluate_MemoOnT(T, delta, Av) ==
    /\ call' = [made |-> TRUE, T |-> T, delta |-> delta, Av |-> Av]
    /\ k' = IF call.made /\ call.T = T THEN k
            ELSE calculate_rates(T, delta, Av, file)
    /\ memo' = IF ~memo.call.made
               THEN [call |-> call', k |-> k', mixed |-> FALSE]
               ELSE [memo EXCEPT !.mixed = @ \/ call' # memo.call]
    /\ UNCHANGED <<file, loaded, firstLoad>>
    /\ UNCHANGED shieldVars

SessionEvaluate(T, delta, Av) ==
    /\ call' = [made |-> TRUE, T |-> T, delta |-> delta, Av |-> Av]
    /\ k' = calculate_rates(T, delta, Av, file)
    /\ memo' = IF ~memo.call.made
               THEN [call |-> call', k |-> k', mixed |-> FALSE]
               ELSE [memo EXCEPT !.mixed = @ \/ call' # memo.call]
    /\ UNCHANGED <<file, loaded, firstLoad>>
    /\ UNCHANGED shieldVars

NextSession ==
    \/ SessionLoad
    \/ \E T \in Temps, delta \in Dilutions, Av \in Extincts :
          SessionEvaluate(T, delta, Av)

SpecSession == InitSession /\ [][NextSession]_vars

SkipTable  == 9
SkipLegend == 3

\* The rows loadtxt reads with skiprows = n.
SkipRows(rows, n) == SubSeq(rows, n + 1, Len(rows))

Min(a, b) == IF a < b THEN a ELSE b

\* np.loadtxt of a whole grid of two rows or more: [st, err, val].
LoadGrid(rows) ==
    IF \E r \in 1..Len(rows) : \E c \in 1..Len(rows[r]) : ~IsFloat(rows[r][c])
    THEN [st |-> "error", err |-> "ValueError", val |-> <<>>]
    ELSE IF \E r \in 1..Len(rows) : Len(rows[r]) # Len(rows[1])
    THEN [st |-> "error", err |-> "ValueError", val |-> <<>>]
    ELSE [st |-> "ok", err |-> "",
          val |-> [r \in 1..Len(rows) |->
                     [c \in 1..Len(rows[r]) |-> ParseFloat(rows[r][c])]]]

\* np.loadtxt of the column col (from 0) of the first max_rows rows, or of
\* all rows when max_rows is negative: [st, err, val].
LoadColumn(rows, col, max_rows) ==
    LET n == IF max_rows < 0 THEN Len(rows) ELSE Min(max_rows, Len(rows))
    IN  IF \E r \in 1..n : Len(rows[r]) < col + 1
        THEN [st |-> "error", err |-> "ValueError", val |-> <<>>]
        ELSE IF \E r \in 1..n : ~IsFloat(rows[r][col + 1])
        THEN [st |-> "error", err |-> "ValueError", val |-> <<>>]
        ELSE [st |-> "ok", err |-> "",
              val |-> [r \in 1..n |-> ParseFloat(rows[r][col + 1])]]

ShieldError(e) ==
    [st |-> "error", err |-> e, shielding |-> <<>>, CO |-> <<>>, H2 |-> <<>>]

read_COshielding(grid, legend) ==
    LET shielding == LoadGrid(SkipRows(grid, SkipTable))
        CO == LoadColumn(SkipRows(legend, SkipLegend), 0, -1)
        H2 == LoadColumn(SkipRows(legend, SkipLegend), 1, Len(shielding.val))
    IN  IF shielding.st # "ok" THEN ShieldError(shielding.err)
        ELSE IF CO.st # "ok" THEN ShieldError(CO.err)
        ELSE IF H2.st # "ok" THEN ShieldError(H2.err)
        ELSE [st |-> "ok", err |-> "", shielding |-> shielding.val,
              CO |-> CO.val, H2 |-> H2.val]

\* np.where(axis == v): the Python positions at which the axis holds v.
Where(axis, v) == {j - 1 : j \in {j2 \in 1..Len(axis) : axis[j2] = v}}

\* idx[0]: the least of them.
First(idx) == CHOOSE j \in idx : \A j2 \in idx : j <= j2

RateError(e) == [st |-> "error", err |-> e, rate |-> 0]

\* A lookup that answers a value off the CO axis with the first column.
retrieve_COshielding_Fallback(N_CO, N_H2, shielding, CO, H2) ==
    IF Where(H2, N_H2) = {} THEN RateError("IndexError")
    ELSE LET idx_CO == IF Where(CO, N_CO) = {} THEN 0
                       ELSE First(Where(CO, N_CO))
             idx_H2 == First(Where(H2, N_H2))
         IN  IF idx_H2 >= Len(shielding) THEN RateError("IndexError")
             ELSE IF idx_CO >= Len(shielding[idx_H2 + 1])
                  THEN RateError("IndexError")
                  ELSE [st |-> "ok", err |-> "",
                        rate |-> shielding[idx_H2 + 1][idx_CO + 1]]

retrieve_COshielding(N_CO, N_H2, shielding, CO, H2) ==
    IF Where(CO, N_CO) = {} THEN RateError("IndexError")
    ELSE IF Where(H2, N_H2) = {} THEN RateError("IndexError")
    ELSE LET idx_CO == First(Where(CO, N_CO))
             idx_H2 == First(Where(H2, N_H2))
         IN  IF idx_H2 >= Len(shielding) THEN RateError("IndexError")
             ELSE IF idx_CO >= Len(shielding[idx_H2 + 1])
                  THEN RateError("IndexError")
                  ELSE [st |-> "ok", err |-> "",
                        rate |-> shielding[idx_H2 + 1][idx_CO + 1]]

(***************************************************************************)
(* The shielding files of the model.  Every grid cell holds a value of its *)
(* own, 10 * row + column; the axes are strictly increasing.               *)
(***************************************************************************)
HeaderRows(n) == [r \in 1..n |-> <<"Visser", "et", "al.">>]

GridRows(R, C) == [r \in 1..R |-> [c \in 1..C |-> ToString(10 * r + c)]]

\* A legend of L rows with the CO values sc, 2*sc, ... in column 0; its
\* first M rows carry the H2 values sh, 2*sh, ... in column 1.
LegendRows(L, M, sc, sh) ==
    [i \in 1..L |-> IF i <= M THEN <<ToString(sc * i), ToString(sh * i)>>
                               ELSE <<ToString(sc * i)>>]

GridFiles ==
    { HeaderRows(SkipTable) \o GridRows(R, C) : R \in 2..MaxDim, C \in 2..MaxDim }

\* Legends of up to MaxDim + 1 rows; with M >= L every row carries both columns.
LegendFiles ==
    { HeaderRows(SkipLegend) \o LegendRows(L, M, sc, sh) :
        L \in 2..MaxDim + 1, M \in 2..MaxDim + 1, sc \in {1, 2}, sh \in {1, 2} }

\* The column densities a caller asks for.
Densities == 0 .. MaxDim + 2

RatesIdle ==
    /\ file = <<>>
    /\ loaded = NoTable
    /\ call = NoCall
    /\ k = NoRates
    /\ firstLoad = NoTable
    /\ memo = NoMemo

InitShield ==
    /\ gridFile \in GridFiles
    /\ legendFile \in LegendFiles
    /\ table = NoShieldTable
    /\ query = NoQuery
    /\ shieldrate = NoShieldRate
    /\ RatesIdle

ReadCOshielding ==
    /\ table' = read_COshielding(gridFile, legendFile)
    /\ UNCHANGED <<gridFile, legendFile, query, shieldrate>>
    /\ UNCHANGED rateVars

\* The caller looks up a pair of column densities in the table it loaded.
RetrieveCOshielding(N_CO, N_H2) ==
    /\ table.st = "ok"
    /\ query' = [made |-> TRUE, N_CO |-> N_CO, N_H2 |-> N_H2]
    /\ shieldrate' = retrieve_COshielding(N_CO, N_H2, table.shielding,
                                          table.CO, table.H2)
    /\ UNCHANGED <<gridFile, legendFile, table>>
    /\ UNCHANGED rateVars

NextShield ==
    \/ ReadCOshielding
    \/ \E N_CO \in Densities, N_H2 \in Densities :
          RetrieveCOshielding(N_CO, N_H2)

SpecShield == InitShield /\ [][NextShield]_vars

\* The data rows of the grid file and its numbers of rows and columns.
GridData == SkipRows(gridFile, SkipTable)

GridRowCount == Len(GridData)

GridColCount == Len(GridData[1])

OnAxis(axis, v) == \E j \in 1..Len(axis) : axis[j] = v

\* The position (from 1) of a value on a strictly increasing axis.
PosOn(axis, v) == CHOOSE j \in 1..Len(axis) : axis[j] = v

\* C7 (as claimed): for a loaded table and a pair (N_CO, N_H2) of a CO axis
\* value and an H2 axis value, the lookup returns without error the grid
\* cell in the row of N_H2's position and the column of N_CO's position.
C7_ExactCell ==
    (/\ query.made
     /\ OnAxis(table.CO, query.N_CO)
     /\ OnAxis(table.H2, query.N_H2))
    => /\ shieldrate.st = "ok"
       /\ shieldrate.rate =
             ParseFloat(GridData[PosOn(table.H2, query.N_H2)]
                                [PosOn(table.CO, query.N_CO)])

\* C8: when N_CO is not a value of the CO axis, or N_H2 is not a value of
\* the H2 axis, the lookup ends in an error and returns no shielding factor.
C8_MissFails ==
    (/\ query.made
     /\ ~(OnAxis(table.CO, query.N_CO) /\ OnAxis(table.H2, query.N_H2)))
    => /\ shieldrate.st = "error"
       /\ shieldrate.err = "IndexError"

\* A lookup of N_CO = 3 between the CO axis values 2 and 4, with N_H2 on
\* the H2 axis, has ended in an error.
C8_Witness ==
    /\ query.made
    /\ table.st = "ok"
    /\ table.CO[1] = 2 /\ table.CO[2] = 4
    /\ query.N_CO = 3
    /\ OnAxis(table.H2, query.N_H2)
    /\ shieldrate.st = "error"

\* C9 (as claimed): every loaded table has as many CO axis values as the
\* grid has columns and as many H2 axis values as the grid has rows.
C9_AxesMatchGrid ==
    table.st = "ok" =>
        /\ Len(table.CO) = GridColCount
        /\ Len(table.H2) = GridRowCount

=============================================================================
